---------------------------- MODULE Spec2Model ----------------------------
(***************************************************************************)
(* Model of the PDF tokenizer and object reader of lex.go (package pdf).   *)
(*                                                                         *)
(* Bytes are their ASCII codes.  A token (and a scalar object) is a record *)
(*   [t, v, n, hi, dec, at, msg]                                           *)
(* where t is the Go dynamic type of the value                             *)
(*   "bool" | "int" | "real" | "str" | "name" | "kw" | "err" | "nil",      *)
(* v is the text (string, name, keyword, and the literal of a real), the   *)
(* int64 is hi * 2^16 + n with n in 0..2^16-1 (so it fits uint16 when      *)
(* hi = 0 and uint32 when hi is in 0..2^16-1), dec is the object pointer   *)
(* the string was decrypted with (<<>> when decryptString was not          *)
(* applied), and msg the format of a message built by fmt.Sprintf or the   *)
(* name of an error value.  at is history: the value of b.objptr when      *)
(* readObject took the string from readToken (<<>> before that).           *)
(***************************************************************************)
EXTENDS Integers, Sequences, FiniteSets, TLC

VARIABLES
    src,          \* the bytes the io.Reader b.r delivers, in order
    chunk,        \* the most bytes b.r hands out in one Read call
    rpos,         \* where in src b.r stands: the bytes before it are delivered
    buf,          \* b.buf
    pos,          \* b.pos
    offset,       \* b.offset
    eof,          \* b.eof
    unread,       \* b.unread, top of the stack last
    allowEOF,     \* b.allowEOF
    allowObjptr,  \* b.allowObjptr
    allowStream,  \* b.allowStream
    key,          \* b.key # nil
    objptr,       \* b.objptr
    stack,        \* the frames of the running readObject / readArray / readDict calls
    ret,          \* what the call that returned last handed to its caller
    calls,        \* number of calls made by the buffer's user
    offset0,      \* history: the offset newBuffer was given
    payloadAt,    \* history: index in src of the first payload byte (0: no stream)
    flags         \* history: what the running outermost call has met

vars == <<src, chunk, rpos, buf, pos, offset, eof, unread, allowEOF, allowObjptr,
          allowStream, key, objptr, stack, ret, calls, offset0, payloadAt, flags>>

Min(a, b) == IF a < b THEN a ELSE b
Max(a, b) == IF a < b THEN b ELSE a

\* The element of a set of one element.  Only({F(r) : r \in {e}}) is F of the
\* value of e, worked out once.
Only(S) == CHOOSE y \in S : TRUE

Reverse(s) == [i \in 1..Len(s) |-> s[Len(s) + 1 - i]]

-----------------------------------------------------------------------------
(* Bounds of the model.                                                    *)

MaxToks  == 3     \* lexemes in a generated input
MaxCalls == 2     \* calls the buffer's user makes
MaxArr   == 3     \* elements kept in an array under construction
MaxSplit == 13    \* distance of the start offset from a multiple of cap(b.buf)
MaxSeek  == 2     \* the furthest position in src the user seeks to
MaxHex   == 5     \* bytes between "<" and ">" of a generated hex string
MaxLit   == 4     \* bytes after "(" of a generated literal string
MaxRun   == 4     \* bytes of a generated keyword run
MaxDict  == 4     \* tokens between "<<" and ">>" of a generated dictionary

BufCap == 4096    \* cap(b.buf)
W16    == 65536   \* 2^16: the values of a uint16

-----------------------------------------------------------------------------
(* Token values.                                                           *)

Tok(t, v, n, msg) ==
    [t |-> t, v |-> v, n |-> n % W16, hi |-> n \div W16, dec |-> <<>>, at |-> <<>>,
     msg |-> msg]

EOFTok      == Tok("err", <<>>, 0, "EOF")          \* io.EOF as a token
NilTok      == Tok("nil", <<>>, 0, "")             \* a nil interface value
BoolTok(x)  == Tok("bool", <<>>, IF x THEN 1 ELSE 0, "")
IntTok(x)   == Tok("int", <<>>, x, "")
RealTok(s)  == Tok("real", s, 0, "")
StrTok(s)   == Tok("str", s, 0, "")
NameTok(s)  == Tok("name", s, 0, "")
KwTok(s)    == Tok("kw", s, 0, "")
MsgTok(m, a) == Tok("str", a, 0, m)   \* the string fmt.Sprintf(m, a) built

IsKw(tok, s) == tok.t = "kw" /\ tok.v = s

kwNull   == <<110, 117, 108, 108>>
kwDict   == <<60, 60>>
kwDictE  == <<62, 62>>
kwArr    == <<91>>
kwArrE   == <<93>>
kwR      == <<82>>
kwObj    == <<111, 98, 106>>
kwEndobj == <<101, 110, 100, 111, 98, 106>>
kwStream == <<115, 116, 114, 101, 97, 109>>
kwTrue   == <<116, 114, 117, 101>>
kwFalse  == <<102, 97, 108, 115, 101>>

isSpace(c) == c \in {0, 9, 10, 12, 13, 32}

isDelim(c) == c \in {60, 62, 40, 41, 91, 93, 123, 125, 47, 37}

-----------------------------------------------------------------------------
(* Byte source.  A buffer value b is [buf, pos, offset, eof, rpos].  An    *)
(* operator named xGot is the part of x after the call whose result it is  *)
(* given.                                                                  *)

Buffer == [buf |-> buf, pos |-> pos, offset |-> offset, eof |-> eof, rpos |-> rpos]

\* reload after b.r.Read(b.buf[:n]) returned got bytes (io.EOF with none).
reloadGot(b, got) ==
    IF got = 0
    THEN [rel |-> FALSE, err |-> TRUE,
          b |-> [b EXCEPT !.buf = <<>>, !.pos = 0, !.eof = (@ \/ allowEOF)]]
    ELSE [rel |-> TRUE, err |-> FALSE,
          b |-> [b EXCEPT !.offset = @ + got,
                          !.buf = SubSeq(src, b.rpos + 1, b.rpos + got),
                          !.pos = 0,
                          !.rpos = @ + got]]

\* b.r hands out up to n = cap(b.buf) - offset % cap(b.buf) bytes.
reload(b) ==
    reloadGot(b, Min(Min(BufCap - (b.offset % BufCap), chunk), Len(src) - b.rpos))

readByteGot(r) ==
    IF r.err \/ ~r.rel
    THEN [c |-> 10, err |-> r.err, b |-> r.b]
    ELSE IF r.b.pos >= Len(r.b.buf)
         THEN [c |-> 10, err |-> FALSE, b |-> r.b]
         ELSE [c |-> r.b.buf[r.b.pos + 1], err |-> FALSE,
               b |-> [r.b EXCEPT !.pos = @ + 1]]

readByte(b) ==
    IF b.pos >= Len(b.buf)
    THEN Only({readByteGot(r) : r \in {reload(b)}})
    ELSE [c |-> b.buf[b.pos + 1], err |-> FALSE, b |-> [b EXCEPT !.pos = @ + 1]]

\* A bug: the pushed-back tokens survive.
seekKeepUnread(b, u, o) ==
    [b |-> [b EXCEPT !.offset = o, !.buf = <<>>, !.pos = 0], u |-> u]

\* seek(offset): [b, u], the buffer and the pushback stack after it.
seek(b, u, o) ==
    [b |-> [b EXCEPT !.offset = o, !.buf = <<>>, !.pos = 0], u |-> <<>>]

\* A bug: the offset of the end of the buffer, whatever was read of it.
readOffsetEnd(b) == b.offset

readOffset(b) == b.offset - Len(b.buf) + b.pos

unreadByte(b) == IF b.pos > 0 THEN [b EXCEPT !.pos = @ - 1] ELSE b

-----------------------------------------------------------------------------
(* Tokenizer.  Every reader returns [tok, b]: the token and the buffer     *)
(* after it.                                                               *)

unhex(c) ==
    IF 48 <= c /\ c <= 57 THEN c - 48
    ELSE IF 97 <= c /\ c <= 102 THEN c - 97 + 10
    ELSE IF 65 <= c /\ c <= 70 THEN c - 65 + 10
    ELSE -1

\* A bug: the nibbles the wrong way round.
hexPairLow(c, c2) ==
    IF unhex(c) < 0 THEN -1
    ELSE IF unhex(c2) < 0 THEN unhex(c) - 16
    ELSE 16 * unhex(c2) + unhex(c)

\* unhex(c)<<4 | unhex(c2) on Go ints: negative when either digit is -1.
hexPair(c, c2) ==
    IF unhex(c2) < 0 THEN -1
    ELSE IF unhex(c) < 0 THEN unhex(c2) - 16
    ELSE 16 * unhex(c) + unhex(c2)

RECURSIVE hexSecond(_, _, _), hexLoop(_, _)

hexSecondGot(c, tmp, r) ==
    IF r.err THEN [tok |-> EOFTok, b |-> r.b]
    ELSE IF isSpace(r.c) THEN hexSecond(c, tmp, r.b)
    ELSE IF hexPair(c, r.c) < 0 THEN [tok |-> StrTok(tmp), b |-> r.b]
    ELSE hexLoop(Append(tmp, hexPair(c, r.c) % 256), r.b)

\* Loop2: the second digit of the pair that c starts.
hexSecond(c, tmp, b) == Only({hexSecondGot(c, tmp, r) : r \in {readByte(b)}})

hexLoopGot(tmp, r) ==
    IF r.err THEN [tok |-> EOFTok, b |-> r.b]
    ELSE IF r.c = 62 THEN [tok |-> StrTok(tmp), b |-> r.b]
    ELSE IF isSpace(r.c) THEN hexLoop(tmp, r.b)
    ELSE hexSecond(r.c, tmp, r.b)

\* Loop: the first digit of a pair, or the closing ">".
hexLoop(tmp, b) == Only({hexLoopGot(tmp, r) : r \in {readByte(b)}})

readHexString(b) == hexLoop(<<>>, b)

RECURSIVE octal(_, _, _)

octalGot(x, i, r) ==
    IF r.err THEN [err |-> TRUE, x |-> x, b |-> r.b]
    ELSE IF r.c < 48 \/ r.c > 55
         THEN [err |-> FALSE, x |-> x, b |-> unreadByte(r.b)]
         ELSE octal(x * 8 + (r.c - 48), i + 1, r.b)

\* The up to two further digits of an octal escape: [err, x, b].
octal(x, i, b) ==
    IF i >= 2 THEN [err |-> FALSE, x |-> x, b |-> b]
    ELSE Only({octalGot(x, i, r) : r \in {readByte(b)}})

RECURSIVE litLoop(_, _, _)

\* after "\" and CR: the byte d that may be the LF of a CR LF
litEscapeCR(tmp, depth, d) ==
    IF d.err THEN [tok |-> EOFTok, b |-> d.b]
    ELSE IF d.c # 10 THEN litLoop(tmp, depth, unreadByte(d.b))
    ELSE litLoop(tmp, depth, d.b)

litOctal(tmp, depth, o) ==
    IF o.err THEN [tok |-> EOFTok, b |-> o.b]
    ELSE litLoop(Append(tmp, o.x % 256), depth, o.b)

\* A bug: an escaped parenthesis counts for the depth.
litEscapeDepth(tmp, depth, e) ==
    IF e.err THEN [tok |-> EOFTok, b |-> e.b]
    ELSE IF e.c = 40 THEN litLoop(Append(tmp, 40), depth + 1, e.b)
    ELSE IF e.c = 41 THEN litLoop(Append(tmp, 41), Max(depth - 1, 1), e.b)
    ELSE IF e.c = 92 THEN litLoop(Append(tmp, 92), depth, e.b)
    ELSE litLoop(tmp \o <<92, e.c>>, depth, e.b)

\* The switch on the byte e after a backslash; readByte hands '\n' with an
\* error, and '\n' has a case of its own.
litEscape(tmp, depth, e) ==
    IF e.c = 110 THEN litLoop(Append(tmp, 10), depth, e.b)
    ELSE IF e.c = 114 THEN litLoop(Append(tmp, 13), depth, e.b)
    ELSE IF e.c = 98 THEN litLoop(Append(tmp, 8), depth, e.b)
    ELSE IF e.c = 116 THEN litLoop(Append(tmp, 9), depth, e.b)
    ELSE IF e.c = 102 THEN litLoop(Append(tmp, 12), depth, e.b)
    ELSE IF e.c \in {40, 41, 92} THEN litLoop(Append(tmp, e.c), depth, e.b)
    ELSE IF e.c = 13 THEN Only({litEscapeCR(tmp, depth, d) : d \in {readByte(e.b)}})
    ELSE IF e.c = 10 THEN litLoop(tmp, depth, e.b)
    ELSE IF 48 <= e.c /\ e.c <= 55
         THEN Only({litOctal(tmp, depth, o) : o \in {octal(e.c - 48, 0, e.b)}})
    ELSE IF e.err THEN [tok |-> EOFTok, b |-> e.b]
    ELSE litLoop(tmp \o <<92, e.c>>, depth, e.b)

\* The switch on the byte r of the string.
litByte(tmp, depth, r) ==
    IF r.err THEN [tok |-> EOFTok, b |-> r.b]
    ELSE IF r.c = 40 THEN litLoop(Append(tmp, 40), depth + 1, r.b)
    ELSE IF r.c = 41
         THEN IF depth - 1 = 0
              THEN [tok |-> StrTok(tmp), b |-> r.b]
              ELSE litLoop(Append(tmp, 41), depth - 1, r.b)
    ELSE IF r.c = 92 THEN Only({litEscape(tmp, depth, e) : e \in {readByte(r.b)}})
    ELSE litLoop(Append(tmp, r.c), depth, r.b)

\* for !b.eof { ... }
litLoop(tmp, depth, b) ==
    IF b.eof THEN [tok |-> StrTok(tmp), b |-> b]
    ELSE Only({litByte(tmp, depth, r) : r \in {readByte(b)}})

readLiteralString(b) == litLoop(<<>>, 1, b)

RECURSIVE nameLoop(_, _)

\* "#" and the two bytes d, e after it; "return err" returns the nil err.
nameEscape(tmp, d, e) ==
    IF d.err \/ e.err
    THEN [tok |-> NilTok, b |-> e.b]
    ELSE nameLoop(Append(tmp, hexPair(d.c, e.c) % 256), e.b)

nameEscape1(tmp, d) == Only({nameEscape(tmp, d, e) : e \in {readByte(d.b)}})

nameLoopGot(tmp, r) ==
    IF r.err THEN [tok |-> EOFTok, b |-> r.b]
    ELSE IF isDelim(r.c) \/ isSpace(r.c)
         THEN [tok |-> NameTok(tmp), b |-> unreadByte(r.b)]
    ELSE IF r.c = 35 THEN Only({nameEscape1(tmp, d) : d \in {readByte(r.b)}})
    ELSE nameLoop(Append(tmp, r.c), r.b)

nameLoop(tmp, b) == Only({nameLoopGot(tmp, r) : r \in {readByte(b)}})

\* A bug: the name keeps its "/".
readNameSlash(b) == nameLoop(<<47>>, b)

readName(b) == nameLoop(<<>>, b)

isDigits(s) == \A i \in 1..Len(s) : 48 <= s[i] /\ s[i] <= 57

\* s without its sign
unsigned(s) == IF Len(s) > 0 /\ s[1] \in {43, 45} THEN Tail(s) ELSE s

\* A bug: a sign alone passes.
isIntegerEmpty(s) == isDigits(unsigned(s))

isInteger(s) == Len(unsigned(s)) # 0 /\ isDigits(unsigned(s))

isRealBody(u) ==
    /\ Len(u) # 0
    /\ \A i \in 1..Len(u) : u[i] = 46 \/ (48 <= u[i] /\ u[i] <= 57)
    /\ Cardinality({i \in 1..Len(u) : u[i] = 46}) = 1

isReal(s) == isRealBody(unsigned(s))

RECURSIVE decimal(_, _, _)
\* The value of the digits s after the value hi * 2^16 + lo of those before.
decimal(s, hi, lo) ==
    IF s = <<>> THEN [hi |-> hi, lo |-> lo]
    ELSE decimal(Tail(s), hi * 10 + ((lo * 10 + (s[1] - 48)) \div W16),
                 (lo * 10 + (s[1] - 48)) % W16)

\* m with the sign of the text s
signed(s, m) ==
    IF s[1] # 45 THEN m
    ELSE IF m.lo = 0 THEN [hi |-> 0 - m.hi, lo |-> 0]
    ELSE [hi |-> 0 - m.hi - 1, lo |-> W16 - m.lo]

\* strconv.ParseInt(s, 10, 64) of a text isInteger accepts (below 2^46 in size).
ParseInt(s) == signed(s, decimal(unsigned(s), 0, 0))

intOf(m) == [IntTok(0) EXCEPT !.hi = m.hi, !.n = m.lo]

\* The switch of readKeyword on the text of the run.
classify(s) ==
    IF s = kwTrue THEN BoolTok(TRUE)
    ELSE IF s = kwFalse THEN BoolTok(FALSE)
    ELSE IF isInteger(s) THEN intOf(ParseInt(s))
    ELSE IF isReal(s) THEN RealTok(s)
    ELSE KwTok(s)

RECURSIVE keywordLoop(_, _)

keywordLoopGot(tmp, r) ==
    IF r.err THEN [tok |-> EOFTok, b |-> r.b]
    ELSE IF isDelim(r.c) \/ isSpace(r.c)
         THEN [tok |-> classify(tmp), b |-> unreadByte(r.b)]
    ELSE keywordLoop(Append(tmp, r.c), r.b)

keywordLoop(tmp, b) == Only({keywordLoopGot(tmp, r) : r \in {readByte(b)}})

readKeyword(b) == keywordLoop(<<>>, b)

RECURSIVE skipComment(_, _), skipSpace(_, _)

skipCommentGot(r) ==
    IF r.err THEN [err |-> TRUE, c |-> r.c, b |-> r.b] ELSE skipComment(r.c, r.b)

\* The loop over a comment: [err, c, b].
skipComment(c, b) ==
    IF c = 13 \/ c = 10 THEN [err |-> FALSE, c |-> c, b |-> b]
    ELSE Only({skipCommentGot(r) : r \in {readByte(b)}})

skipSpaceGot(r) ==
    IF r.err THEN [err |-> TRUE, c |-> r.c, b |-> r.b] ELSE skipSpace(r.c, r.b)

skipSpaceAfter(k) == IF k.err THEN k ELSE skipSpace(k.c, k.b)

\* "Find first non-space, non-comment byte": [err, c, b].
skipSpace(c, b) ==
    IF isSpace(c)
    THEN IF b.eof THEN [err |-> TRUE, c |-> c, b |-> b]
         ELSE Only({skipSpaceGot(r) : r \in {readByte(b)}})
    ELSE IF c = 37 THEN Only({skipSpaceAfter(k) : k \in {skipComment(c, b)}})
    ELSE [err |-> FALSE, c |-> c, b |-> b]

\* The message readToken returns for a delimiter that begins no token.
unexpectedDelimiter(c) == MsgTok("unexpected delimiter %#q", <<c>>)

\* case '<' with the byte d after it
lexLess(d) ==
    IF d.err THEN [tok |-> EOFTok, b |-> d.b]
    ELSE IF d.c = 60 THEN [tok |-> KwTok(kwDict), b |-> d.b]
    ELSE readHexString(unreadByte(d.b))

\* case '>' with the byte d after it
lexGreater(c, d) ==
    IF d.err THEN [tok |-> EOFTok, b |-> d.b]
    ELSE IF d.c = 62 THEN [tok |-> KwTok(kwDictE), b |-> d.b]
    ELSE [tok |-> unexpectedDelimiter(c), b |-> unreadByte(d.b)]

\* The switch of readToken on the first byte c of the token.
lexAt(c, b) ==
    IF c = 60 THEN Only({lexLess(d) : d \in {readByte(b)}})
    ELSE IF c = 40 THEN readLiteralString(b)
    ELSE IF c \in {91, 93, 123, 125} THEN [tok |-> KwTok(<<c>>), b |-> b]
    ELSE IF c = 47 THEN readName(b)
    ELSE IF c = 62 THEN Only({lexGreater(c, d) : d \in {readByte(b)}})
    ELSE IF isDelim(c) THEN [tok |-> unexpectedDelimiter(c), b |-> b]
    ELSE readKeyword(unreadByte(b))

lexSkipped(s) == IF s.err THEN [tok |-> EOFTok, b |-> s.b] ELSE lexAt(s.c, s.b)

lexFirst(r) ==
    IF r.err THEN [tok |-> EOFTok, b |-> r.b]
    ELSE Only({lexSkipped(k) : k \in {skipSpace(r.c, r.b)}})

\* readToken when b.unread is empty.
lexToken(b) == Only({lexFirst(r) : r \in {readByte(b)}})

readTokenGot(u, r) == [tok |-> r.tok, b |-> r.b, u |-> u, fresh |-> TRUE]

\* readToken: [tok, b, u, fresh], u the pushback stack after it and fresh
\* whether the token came from the bytes.
readToken(b, u) ==
    IF Len(u) > 0
    THEN [tok |-> u[Len(u)], b |-> b, u |-> SubSeq(u, 1, Len(u) - 1), fresh |-> FALSE]
    ELSE Only({readTokenGot(u, r) : r \in {lexToken(b)}})

\* A bug: the token is pushed twice.
unreadTokenTwice(u, t) == Append(Append(u, t), t)

unreadToken(u, t) == Append(u, t)

-----------------------------------------------------------------------------
(* Objects.  A scalar object is its token; null is the nil interface.      *)

Ptr(hi, lo, gen) == [idhi |-> hi, id |-> lo, gen |-> gen]   \* objptr{id, gen}

RefObj(p)       == [t |-> "objptr", ptr |-> p]
DefObj(p, o)    == [t |-> "objdef", ptr |-> p, obj |-> o]
ArrayObj(x)     == [t |-> "array", a |-> x]
DictObj(x)      == [t |-> "dict", m |-> x]
StreamObj(x, p, off) == [t |-> "stream", hdr |-> x, ptr |-> p, offset |-> off]
ErrObj(m)       == Tok("err", <<>>, 0, m)       \* an error value used as an object

\* int64(uint32(t1)) == t1 and int64(uint16(t2)) == t2
\* A bug: only the upper end is checked.
fitsUint32Below(tok) == tok.hi < W16

fitsUint32(tok) == 0 <= tok.hi /\ tok.hi < W16
fitsUint16(tok) == tok.hi = 0

\* A bug: the id and the generation change places.
refPtrSwapped(t1, t2) == Ptr(t2.hi % W16, t2.n, t1.n)

\* objptr{uint32(t1), uint16(t2)}
refPtr(t1, t2) == Ptr(t1.hi % W16, t1.n, t2.n)

\* A bug: strings of object 0 are decrypted too.
mayDecryptAnyId(tok) == tok.t = "str" /\ key

\* The guard of the call of decryptString in readObject.
mayDecrypt(tok) == tok.t = "str" /\ key /\ ~(objptr.id = 0 /\ objptr.idhi = 0)

\* decryptString(b.key, b.useAES, b.objptr, str): the string as decrypted for ptr.
decryptString(ptr, tok) == [tok EXCEPT !.dec = <<ptr>>]

\* A bug: the lookahead whatever allowObjptr says.
wantsLookaheadAlways(tok) == tok.t = "int" /\ fitsUint32(tok)

\* Whether readObject goes on to the lookahead after its first token.
wantsLookahead(tok) == allowObjptr /\ tok.t = "int" /\ fitsUint32(tok)

\* A bug: the second token is pushed back before the third.
pushBack3Swapped(u, tok2, tok3) == unreadToken(unreadToken(u, tok2), tok3)

\* The two unreadToken calls after a third token that is neither R nor obj.
pushBack3(u, tok2, tok3) == unreadToken(unreadToken(u, tok3), tok2)

\* x = append(x, res); the model keeps the first MaxArr elements.
arrAppend(x, res) == IF Len(x) < MaxArr THEN Append(x, res) ELSE x

\* A bug: the first value of a key stays.
dictPutFirst(x, n, res) ==
    [k \in (DOMAIN x) \cup {n} |-> IF k \in DOMAIN x THEN x[k] ELSE res]

\* x[n] = res
dictPut(x, n, res) == [k \in (DOMAIN x) \cup {n} |-> IF k = n THEN res ELSE x[k]]

\* case '\r' with the byte d after it
streamSecond(d) ==
    IF d.err THEN [kind |-> "err", b |-> d.b]
    ELSE IF d.c # 10 THEN [kind |-> "ok", b |-> unreadByte(d.b)]
    ELSE [kind |-> "ok", b |-> d.b]

streamFirst(r) ==
    IF r.c = 13
    THEN IF r.err THEN [kind |-> "err", b |-> r.b]
         ELSE Only({streamSecond(d) : d \in {readByte(r.b)}})
    ELSE IF r.c = 10
         THEN IF r.err THEN [kind |-> "err", b |-> r.b] ELSE [kind |-> "ok", b |-> r.b]
    ELSE IF r.err THEN [kind |-> "err", b |-> r.b]
    ELSE [kind |-> "malformed", b |-> r.b]

\* The switch of readDict on the byte after the keyword stream:
\* [kind, b] with kind "ok", "err" (a read error) or "malformed".
streamStart(b) == Only({streamFirst(r) : r \in {readByte(b)}})

-----------------------------------------------------------------------------
(* History: the tokens still to come, pushed back ones first, up to the    *)
(* end of the input.                                                       *)

RECURSIVE lexAll(_)

\* io.EOF with nothing left to read ends it; io.EOF handed out before the end
\* (on whitespace, when b.eof is set) is a token like the others.
lexAllGot(r) ==
    IF r.tok.t = "err" /\ r.b.rpos = Len(src) /\ r.b.pos >= Len(r.b.buf) THEN <<>>
    ELSE <<r.tok>> \o lexAll(r.b)

lexAll(b) == Only({lexAllGot(r) : r \in {lexToken(b)}})

RECURSIVE stripErr(_)
stripErr(s) ==
    IF s # <<>> /\ s[Len(s)].t = "err" THEN stripErr(SubSeq(s, 1, Len(s) - 1)) ELSE s

pending(b, u) == stripErr(Reverse(u) \o lexAll(b))

Drop(s, k) == SubSeq(s, k + 1, Len(s))

-----------------------------------------------------------------------------
(* The calls in progress.                                                  *)

Top       == stack[Len(stack)]
Pop       == SubSeq(stack, 1, Len(stack) - 1)
SetTop(f) == [stack EXCEPT ![Len(stack)] = f]

\* A readObject call about to start with buffer b and pushback stack u.
ObjFrame(b, u) ==
    [fn |-> "readObject", pc |-> "start", tok |-> NilTok, tok2 |-> NilTok,
     old |-> objptr, s0 |-> pending(b, u), u0 |-> u, ptr0 |-> objptr]
ArrFrame  == [fn |-> "readArray", pc |-> "loop", x |-> <<>>]
DictFrame == [fn |-> "readDict", pc |-> "loop", x |-> <<>>, n |-> <<>>]

NoRet == [set |-> FALSE]

\* What the readObject call f returns: (obj, err), and how it got there.
Ret(f, obj, err, how) ==
    [set |-> TRUE, obj |-> obj, err |-> err, how |-> how, fn |-> f.fn,
     tok |-> f.tok, tok2 |-> f.tok2, s0 |-> f.s0, u0 |-> f.u0, ptr0 |-> f.ptr0]

\* What readArray, readDict or a readToken call of the user returns.
RetObj(fn, obj) ==
    [set |-> TRUE, obj |-> obj, err |-> "", how |-> fn, fn |-> fn,
     tok |-> NilTok, tok2 |-> NilTok, s0 |-> <<>>, u0 |-> <<>>, ptr0 |-> objptr]

SetBuffer(b) ==
    /\ buf' = b.buf
    /\ pos' = b.pos
    /\ offset' = b.offset
    /\ eof' = b.eof
    /\ rpos' = b.rpos

Fixed == UNCHANGED <<src, chunk, allowEOF, allowObjptr, allowStream, key, offset0,
                     payloadAt>>

msgUnexpectedKeyword == "unexpected keyword %q parsing object"
msgStreamStart       == "stream keyword not followed by newline"

\* The user of the buffer calls readObject.
ParseObject ==
    /\ stack = <<>>
    /\ calls < MaxCalls
    /\ stack' = <<ObjFrame(Buffer, unread)>>
    /\ ret' = NoRet
    /\ calls' = calls + 1
    /\ flags' = {}
    /\ UNCHANGED <<rpos, buf, pos, offset, eof, unread, objptr>>
    /\ Fixed

CallReadTokenGot(r) ==
    /\ SetBuffer(r.b)
    /\ unread' = r.u
    /\ ret' = RetObj("readToken", r.tok)

\* The user of the buffer calls readToken.
CallReadToken ==
    /\ stack = <<>>
    /\ calls < MaxCalls
    /\ \E r \in {readToken(Buffer, unread)} : CallReadTokenGot(r)
    /\ calls' = calls + 1
    /\ flags' = {}
    /\ UNCHANGED <<stack, objptr>>
    /\ Fixed

\* History: seek(o) was called with b.r at position p of src, in the state
\* described by was.
SeekRet(o, p, was) ==
    [set |-> TRUE, obj |-> NilTok, err |-> "", how |-> "seek", fn |-> "seek",
     to |-> o, at |-> p, was |-> was]

SeekGot(o, p, r) ==
    /\ SetBuffer([r.b EXCEPT !.rpos = p])
    /\ unread' = r.u
    /\ ret' = SeekRet(o, p, [allowEOF |-> allowEOF, allowObjptr |-> allowObjptr,
                             allowStream |-> allowStream, key |-> key,
                             objptr |-> objptr, pushed |-> Len(unread)])

\* The user of the buffer positions b.r at p, one of the first MaxSeek
\* positions after the start, for which the offset is offset0 + p, and calls
\* seek with that offset.
Seek ==
    /\ stack = <<>>
    /\ calls < MaxCalls
    /\ \E p \in 1..Min(MaxSeek, Len(src)) :
          \E r \in {seek(Buffer, unread, offset0 + p)} : SeekGot(offset0 + p, p, r)
    /\ calls' = calls + 1
    /\ flags' = {}
    /\ UNCHANGED <<stack, objptr>>
    /\ Fixed

\* History: the string tok, marked with the object pointer in force.
readAt(tok) == IF tok.t = "str" THEN [tok EXCEPT !.at = <<objptr>>] ELSE tok

\* The first token as readObject goes on with it: a string is decrypted.
firstToken(tok) ==
    IF mayDecrypt(tok) THEN decryptString(objptr, readAt(tok)) ELSE readAt(tok)

\* readObject on the keyword kw; f is its frame.
ReadObjectKeyword(f, kw) ==
    IF kw = kwNull
    THEN stack' = Pop /\ ret' = Ret(f, NilTok, "", "null") /\ flags' = flags
    ELSE IF kw = kwDict
    THEN /\ stack' = Append(SetTop([f EXCEPT !.pc = "dict"]), DictFrame)
         /\ ret' = NoRet /\ flags' = flags
    ELSE IF kw = kwArr
    THEN /\ stack' = Append(SetTop([f EXCEPT !.pc = "array"]), ArrFrame)
         /\ ret' = NoRet /\ flags' = flags
    ELSE /\ stack' = Pop
         /\ ret' = Ret(f, NilTok, msgUnexpectedKeyword, "unexpected")
         /\ flags' = flags \cup {"UnexpectedKeyword"}

\* readObject on a token that is no keyword; f is its frame, f.tok the token.
ReadObjectScalar(f) ==
    /\ flags' = flags
    /\ IF wantsLookahead(f.tok)
       THEN stack' = SetTop([f EXCEPT !.pc = "tok2"]) /\ ret' = NoRet
       ELSE stack' = Pop /\ ret' = Ret(f, f.tok, "", "scalar")

ReadObjectStartGot(r) ==
    /\ SetBuffer(r.b)
    /\ unread' = r.u
    /\ IF r.tok.t = "kw"
       THEN ReadObjectKeyword([Top EXCEPT !.tok = r.tok], r.tok.v)
       ELSE ReadObjectScalar([Top EXCEPT !.tok = firstToken(r.tok)])

\* readObject up to the lookahead: the first token.
ReadObjectStart ==
    /\ stack # <<>> /\ Top.fn = "readObject" /\ Top.pc = "start"
    /\ \E r \in {readToken(Buffer, unread)} : ReadObjectStartGot(r)
    /\ UNCHANGED <<objptr, calls>>
    /\ Fixed

ReadObjectTok2Got(r) ==
    /\ SetBuffer(r.b)
    /\ IF r.tok.t = "int" /\ fitsUint16(r.tok)
       THEN /\ stack' = SetTop([Top EXCEPT !.tok2 = r.tok, !.pc = "tok3"])
            /\ ret' = NoRet
            /\ unread' = r.u
       ELSE /\ stack' = Pop
            /\ ret' = Ret([Top EXCEPT !.tok2 = r.tok], Top.tok, "", "look2")
            /\ unread' = unreadToken(r.u, r.tok)

\* readObject: the second token of the lookahead.
ReadObjectTok2 ==
    /\ stack # <<>> /\ Top.fn = "readObject" /\ Top.pc = "tok2"
    /\ \E r \in {readToken(Buffer, unread)} : ReadObjectTok2Got(r)
    /\ UNCHANGED <<objptr, calls, flags>>
    /\ Fixed

\* The frame of the readObject call for the object of "id gen obj".
NestedFrame(b, u, p) == [ObjFrame(b, u) EXCEPT !.old = p, !.ptr0 = p]

ReadObjectTok3Got(f, r) ==
    /\ SetBuffer(r.b)
    /\ IF IsKw(r.tok, kwR)
       THEN /\ stack' = Pop
            /\ ret' = Ret(f, RefObj(refPtr(f.tok, f.tok2)), "", "ref")
            /\ unread' = r.u
            /\ objptr' = objptr
       ELSE IF IsKw(r.tok, kwObj)
       THEN /\ objptr' = refPtr(f.tok, f.tok2)
            /\ stack' = Append(SetTop([f EXCEPT !.pc = "nested", !.old = objptr]),
                               NestedFrame(r.b, r.u, refPtr(f.tok, f.tok2)))
            /\ ret' = NoRet
            /\ unread' = r.u
       ELSE /\ stack' = Pop
            /\ ret' = Ret(f, f.tok, "", "look3")
            /\ unread' = pushBack3(r.u, f.tok2, r.tok)
            /\ objptr' = objptr

\* readObject: the third token of the lookahead.
ReadObjectTok3 ==
    /\ stack # <<>> /\ Top.fn = "readObject" /\ Top.pc = "tok3"
    /\ \E r \in {readToken(Buffer, unread)} : ReadObjectTok3Got(Top, r)
    /\ UNCHANGED <<calls, flags>>
    /\ Fixed

\* readObject: the token after an object that is no stream.
ReadObjectEndobj(f, r) ==
    /\ SetBuffer(r.b)
    /\ unread' = IF IsKw(r.tok, kwEndobj) THEN r.u ELSE unreadToken(r.u, r.tok)
    /\ stack' = Pop
    /\ ret' = Ret(f, DefObj(refPtr(f.tok, f.tok2), ret.obj), "", "def")
    /\ objptr' = f.old

\* readObject after the object of "id gen obj" has been read.
ReadObjectNested ==
    /\ stack # <<>> /\ Top.fn = "readObject" /\ Top.pc = "nested"
    /\ ret.set
    /\ IF ret.err # ""
       THEN /\ stack' = Pop
            /\ ret' = Ret(Top, NilTok, ret.err, "deferr")
            /\ UNCHANGED <<rpos, buf, pos, offset, eof, unread, objptr>>
       ELSE IF ret.obj.t = "stream"
       THEN /\ stack' = Pop
            /\ ret' = Ret(Top, DefObj(refPtr(Top.tok, Top.tok2), ret.obj), "", "def")
            /\ objptr' = Top.old
            /\ UNCHANGED <<rpos, buf, pos, offset, eof, unread>>
       ELSE \E r \in {readToken(Buffer, unread)} : ReadObjectEndobj(Top, r)
    /\ UNCHANGED <<calls, flags>>
    /\ Fixed

\* readObject: "return b.readDict(), nil" and "return b.readArray(), nil".
ReadObjectCompound ==
    /\ stack # <<>> /\ Top.fn = "readObject" /\ Top.pc \in {"dict", "array"}
    /\ ret.set
    /\ stack' = Pop
    /\ ret' = Ret(Top, ret.obj, "", Top.pc)
    /\ UNCHANGED <<rpos, buf, pos, offset, eof, unread, objptr, calls, flags>>
    /\ Fixed

ReadArrayLoopGot(r) ==
    /\ SetBuffer(r.b)
    /\ IF r.tok.t = "nil" \/ IsKw(r.tok, kwArrE)
       THEN /\ stack' = Pop
            /\ ret' = RetObj("readArray", ArrayObj(Top.x))
            /\ unread' = r.u
       ELSE /\ unread' = unreadToken(r.u, r.tok)
            /\ stack' = Append(SetTop([Top EXCEPT !.pc = "elem"]),
                               ObjFrame(r.b, unreadToken(r.u, r.tok)))
            /\ ret' = NoRet

\* readArray: the token at the head of the loop.
ReadArrayLoop ==
    /\ stack # <<>> /\ Top.fn = "readArray" /\ Top.pc = "loop"
    /\ \E r \in {readToken(Buffer, unread)} : ReadArrayLoopGot(r)
    /\ UNCHANGED <<objptr, calls, flags>>
    /\ Fixed

\* readArray: the element readObject returned.
ReadArrayElem ==
    /\ stack # <<>> /\ Top.fn = "readArray" /\ Top.pc = "elem"
    /\ ret.set
    /\ IF ret.err # ""
       THEN /\ stack' = Pop
            /\ ret' = RetObj("readArray", ErrObj(ret.err))
       ELSE /\ stack' = SetTop([Top EXCEPT !.pc = "loop", !.x = arrAppend(@, ret.obj)])
            /\ ret' = NoRet
    /\ UNCHANGED <<rpos, buf, pos, offset, eof, unread, objptr, calls, flags>>
    /\ Fixed

ReadDictLoopGot(r) ==
    /\ SetBuffer(r.b)
    /\ unread' = r.u
    /\ IF r.tok.t = "nil" \/ IsKw(r.tok, kwDictE)
       THEN stack' = SetTop([Top EXCEPT !.pc = "close"])
       ELSE IF r.tok.t # "name"
       THEN stack' = stack
       ELSE stack' = Append(SetTop([Top EXCEPT !.pc = "value", !.n = r.tok.v]),
                            ObjFrame(r.b, r.u))

\* readDict: the key at the head of the loop.
ReadDictLoop ==
    /\ stack # <<>> /\ Top.fn = "readDict" /\ Top.pc = "loop"
    /\ \E r \in {readToken(Buffer, unread)} : ReadDictLoopGot(r)
    /\ ret' = NoRet
    /\ UNCHANGED <<objptr, calls, flags>>
    /\ Fixed

\* readDict: the value readObject returned.
ReadDictValue ==
    /\ stack # <<>> /\ Top.fn = "readDict" /\ Top.pc = "value"
    /\ ret.set
    /\ IF ret.err # ""
       THEN /\ stack' = Pop
            /\ ret' = RetObj("readDict", NilTok)
       ELSE /\ stack' = SetTop([Top EXCEPT !.pc = "loop",
                                           !.x = dictPut(@, Top.n, ret.obj)])
            /\ ret' = NoRet
    /\ UNCHANGED <<rpos, buf, pos, offset, eof, unread, objptr, calls, flags>>
    /\ Fixed

\* What readDict returns after the keyword stream and the bytes s after it.
streamResult(x, s) ==
    IF s.kind = "ok" THEN StreamObj(x, objptr, readOffset(s.b))
    ELSE IF s.kind = "err" THEN EOFTok
    ELSE MsgTok(msgStreamStart, <<>>)

ReadDictStream(r, s) ==
    /\ SetBuffer(s.b)
    /\ unread' = r.u
    /\ ret' = RetObj("readDict", streamResult(Top.x, s))
    /\ flags' = IF s.kind = "malformed"
                THEN flags \cup {"MalformedStreamStart"} ELSE flags

ReadDictCloseGot(r) ==
    IF ~IsKw(r.tok, kwStream)
    THEN /\ SetBuffer(r.b)
         /\ unread' = unreadToken(r.u, r.tok)
         /\ ret' = RetObj("readDict", DictObj(Top.x))
         /\ flags' = flags
    ELSE \E s \in {streamStart(r.b)} : ReadDictStream(r, s)

\* readDict after the loop: a plain dictionary, or the start of a stream.
ReadDictClose ==
    /\ stack # <<>> /\ Top.fn = "readDict" /\ Top.pc = "close"
    /\ stack' = Pop
    /\ IF ~allowStream
       THEN /\ ret' = RetObj("readDict", DictObj(Top.x))
            /\ flags' = flags
            /\ UNCHANGED <<rpos, buf, pos, offset, eof, unread>>
       ELSE \E r \in {readToken(Buffer, unread)} : ReadDictCloseGot(r)
    /\ UNCHANGED <<objptr, calls>>
    /\ Fixed

Next ==
    \/ ParseObject
    \/ CallReadToken
    \/ Seek
    \/ ReadObjectStart
    \/ ReadObjectTok2
    \/ ReadObjectTok3
    \/ ReadObjectNested
    \/ ReadObjectCompound
    \/ ReadArrayLoop
    \/ ReadArrayElem
    \/ ReadDictLoop
    \/ ReadDictValue
    \/ ReadDictClose

-----------------------------------------------------------------------------
(* The inputs.  A generated input is up to MaxToks lexemes, each followed  *)
(* by a space; the others are written out.                                 *)

Lexemes ==
    {<<49>>, kwR, kwObj, kwArr, kwArrE,
     <<47, 65>>,            \* /A
     <<40, 115, 41>>}       \* (s)

Seqs(S, n) == UNION {[1..k -> S] : k \in 1..n}

RECURSIVE Join(_)
Join(ls) == IF ls = <<>> THEN <<>> ELSE ls[1] \o <<32>> \o Join(Tail(ls))

exRef ==   \* 1 0 R 
    <<49, 32, 48, 32, 82, 32>>
exDefPlain ==   \* 1 0 obj /Type /Catalog endobj
    <<49, 32, 48, 32, 111, 98, 106, 32, 47, 84, 121, 112, 101, 32, 47, 67,
      97, 116, 97, 108, 111, 103, 32, 101, 110, 100, 111, 98, 106>>
exDefDict ==   \* 1 0 obj << /Type /Catalog >> endobj
    <<49, 32, 48, 32, 111, 98, 106, 32, 60, 60, 32, 47, 84, 121, 112, 101,
      32, 47, 67, 97, 116, 97, 108, 111, 103, 32, 62, 62, 32, 101, 110,
      100, 111, 98, 106>>
exDefStr ==   \* 1 0 obj (s) endobj 
    <<49, 32, 48, 32, 111, 98, 106, 32, 40, 115, 41, 32, 101, 110, 100,
      111, 98, 106, 32>>
exDefZero ==   \* 0 0 obj [ (s) <41> ] endobj 
    <<48, 32, 48, 32, 111, 98, 106, 32, 91, 32, 40, 115, 41, 32, 60, 52,
      49, 62, 32, 93, 32, 101, 110, 100, 111, 98, 106, 32>>
exDefNoEnd ==   \* 1 0 obj 5 (s) 
    <<49, 32, 48, 32, 111, 98, 106, 32, 53, 32, 40, 115, 41, 32>>
exDefBad ==   \* 1 0 obj endobj (s) 
    <<49, 32, 48, 32, 111, 98, 106, 32, 101, 110, 100, 111, 98, 106, 32,
      40, 115, 41, 32>>
exArrStr ==   \* [ (s) << /A <41> >> ] 
    <<91, 32, 40, 115, 41, 32, 60, 60, 32, 47, 65, 32, 60, 52, 49, 62, 32,
      62, 62, 32, 93, 32>>
exArrRef ==   \* [ 1 0 R 5 6 /A ] 7 
    <<91, 32, 49, 32, 48, 32, 82, 32, 53, 32, 54, 32, 47, 65, 32, 93, 32,
      55, 32>>
exDictBad ==   \* << /A R >> 
    <<60, 60, 32, 47, 65, 32, 82, 32, 62, 62, 32>>
exArrBad ==   \* [ R ] 
    <<91, 32, 82, 32, 93, 32>>
exDictDup ==   \* << 5 /A 1 /A (s) >> 
    <<60, 60, 32, 53, 32, 47, 65, 32, 49, 32, 47, 65, 32, 40, 115, 41, 32,
      62, 62, 32>>
exArrOpen ==   \* [ 1 
    <<91, 32, 49, 32>>
exDictOpen ==   \* << /A 1 
    <<60, 60, 32, 47, 65, 32, 49, 32>>
exNestOpen ==   \* [ << /A [ 
    <<91, 32, 60, 60, 32, 47, 65, 32, 91, 32>>
exDelims ==   \* [ > ) ] 
    <<91, 32, 62, 32, 41, 32, 93, 32>>
exPush ==   \* 5 6 /A (s) 
    <<53, 32, 54, 32, 47, 65, 32, 40, 115, 41, 32>>
exStreamBad ==   \* << >> stream X
    <<60, 60, 32, 62, 62, 32, 115, 116, 114, 101, 97, 109, 32, 88>>
exBig ==   \* 65536 70000 R 1 65536 R 
    <<54, 53, 53, 51, 54, 32, 55, 48, 48, 48, 48, 32, 82, 32, 49, 32, 54,
      53, 53, 51, 54, 32, 82, 32>>

exNeg ==   \* -1 0 R 
    <<45, 49, 32, 48, 32, 82, 32>>
exWide ==   \* 4294967296 0 R 
    <<52, 50, 57, 52, 57, 54, 55, 50, 57, 54, 32, 48, 32, 82, 32>>
exMax ==   \* 4294967295 65535 R 
    <<52, 50, 57, 52, 57, 54, 55, 50, 57, 53, 32,
      54, 53, 53, 51, 53, 32, 82, 32>>

exDictStr ==   \* <<(s)>>
    <<60, 60, 40, 115, 41, 62, 62>>

Examples ==
    {exDictStr, exNeg, exWide, exMax, exRef, exDefPlain, exDefDict, exDefStr, exDefZero, exDefNoEnd,
     exDefBad, exArrStr, exArrRef, exDictBad, exArrBad, exDictDup,
     exArrOpen, exDictOpen, exNestOpen, exDelims, exPush, exStreamBad,
     exBig}

\* What precedes the keyword stream, the line ending after it, the payload.
StreamPre ==
    {<<60, 60, 62, 62>>,                                        \* <<>>
     <<60, 60, 32, 47, 65, 32, 49, 32, 62, 62, 32>>,            \* << /A 1 >>
     <<49, 32, 48, 32, 111, 98, 106, 32, 60, 60, 62, 62, 10>>,  \* 1 0 obj <<>>\n
     <<91, 60, 60, 62, 62>>}                                    \* [<<>>
StreamEOL == {<<13, 10>>, <<10>>, <<13>>}
StreamPayload == {<<88>>, <<10, 88>>, <<>>}

\* The settings of the buffer a user may have made before the first call.
Settings(E, O, S, K) ==
    {[allowEOF |-> e, allowObjptr |-> o, allowStream |-> st, key |-> k.key, objptr |-> k.ptr] :
        e \in E, o \in O, st \in S, k \in K}

NoKey   == [key |-> FALSE, ptr |-> Ptr(0, 0, 0)]
KeyZero == [key |-> TRUE, ptr |-> Ptr(0, 0, 0)]
KeySet  == [key |-> TRUE, ptr |-> Ptr(0, 7, 0)]

Start(s, pay, k, o, c) ==
    [src |-> s, payloadAt |-> pay, chunk |-> k, offset0 |-> o, cfg |-> c]

GenStarts ==
    {Start(Join(ls), 0, BufCap, 0, c) :
        ls \in Seqs(Lexemes, MaxToks),
        c \in Settings({FALSE}, BOOLEAN, {TRUE}, {NoKey})}

ExampleStarts ==
    {Start(e, 0, k, 0, c) :
        e \in Examples, k \in {1, BufCap},
        c \in Settings(BOOLEAN, BOOLEAN, BOOLEAN, {NoKey, KeyZero, KeySet})}

StreamParts ==
    {q \in StreamPre \X StreamEOL \X StreamPayload :
        ~(q[2] = <<13>> /\ q[3] # <<>> /\ q[3][1] = 10)}

StreamStarts ==
    {Start(q[1] \o kwStream \o q[2] \o q[3], Len(q[1] \o kwStream \o q[2]), k, o, c) :
        q \in StreamParts,
        k \in {1, BufCap},
        o \in {0} \cup {BufCap - i : i \in 1..MaxSplit},
        c \in Settings(BOOLEAN, {TRUE}, {TRUE}, {NoKey})}

\* "<<", up to MaxDict tokens of /A, /B and 5, ">>".
DictInputs ==
    {kwDict \o <<32>> \o Join(ls) \o kwDictE \o <<32>> :
        ls \in Seqs({<<47, 65>>, <<47, 66>>, <<53>>}, MaxDict)}

DictStarts ==
    {Start(i, 0, k, 0, c) :
        i \in DictInputs, k \in {BufCap},
        c \in Settings({FALSE}, BOOLEAN, {TRUE}, {NoKey})}

InitFrom(s) ==
    /\ src = s.src
    /\ chunk = s.chunk
    /\ rpos = 0
    /\ buf = <<>>
    /\ pos = 0
    /\ offset = s.offset0
    /\ eof = FALSE
    /\ unread = <<>>
    /\ allowEOF = s.cfg.allowEOF
    /\ allowObjptr = s.cfg.allowObjptr
    /\ allowStream = s.cfg.allowStream
    /\ key = s.cfg.key
    /\ objptr = s.cfg.objptr
    /\ stack = <<>>
    /\ ret = NoRet
    /\ calls = 0
    /\ offset0 = s.offset0
    /\ payloadAt = s.payloadAt
    /\ flags = {}

Init ==
    \E s \in GenStarts \cup ExampleStarts \cup StreamStarts \cup DictStarts : InitFrom(s)

Spec == Init /\ [][Next]_vars

\* The written-out inputs alone; the reader always takes its next step.
InitExamples == \E s \in ExampleStarts : InitFrom(s)

FairSpec == InitExamples /\ [][Next]_vars /\ WF_vars(Next)

-----------------------------------------------------------------------------
(* The tokenizer alone: readToken on one hex string, literal string or     *)
(* keyword run, read a byte or a buffer at a time.                         *)

exHex     == <<60, 52, 49, 32, 52, 50, 62>>                 \* <41 42>
exHexCase == <<60, 52, 97, 10, 52, 70, 32, 62>>             \* <4a\n4F >
exHexOdd  == <<60, 52, 49, 53, 62>>                         \* <415>
exLit     == <<40, 65, 40, 66, 41, 67, 41>>                 \* (A(B)C)
exLitEsc  == <<40, 92, 40, 40, 92, 41, 41, 92, 92, 41>>     \* (\((\))\\)

\* "<", up to MaxHex bytes of 4, 1, space and g, ">".
HexInputs ==
    {<<60>> \o b \o <<62>> : b \in Seqs({52, 49, 32, 103}, MaxHex)}
        \cup {exHex, exHexCase, exHexOdd}

\* "(", up to MaxLit bytes of "(", ")", "\" and A, and ")" enough to close.
LitInputs ==
    {<<40>> \o b \o [i \in 1..(MaxLit + 2) |-> 41] : b \in Seqs({40, 41, 92, 65}, MaxLit)}
        \cup {exLit, exLitEsc}

\* Up to MaxRun bytes of "+", "-", 1, 0, "." and R, and some longer runs.
RunTexts ==
    Seqs({43, 45, 49, 48, 46, 82}, MaxRun)
        \cup {kwTrue, kwFalse, kwTrue \o <<49>>, <<43>> \o kwTrue,
              <<49, 46, 50, 46, 51>>,                       \* 1.2.3
              <<45, 50, 49, 52, 55, 52, 56, 51, 54, 52, 55>>,  \* -2147483647
              <<43, 48, 48, 52, 50>>}                       \* +0042

RunInputs == {t \o <<32>> : t \in RunTexts}

LexStarts ==
    {Start(i, 0, k, 0, c) :
        i \in HexInputs \cup LitInputs \cup RunInputs,
        k \in {1, BufCap},
        c \in Settings({FALSE}, {TRUE}, {TRUE}, {NoKey})}

InitLex == \E s \in LexStarts : InitFrom(s)

LexSpec == InitLex /\ [][CallReadToken]_vars

-----------------------------------------------------------------------------
(* The claims.                                                             *)

\* The k-th of the tokens s that were to come, io.EOF after the last.
Nth(s, k) == IF k <= Len(s) THEN s[k] ELSE EOFTok

RECURSIVE nextTokens(_, _, _)

nextTokensGot(r, k) == <<r.tok>> \o nextTokens(r.b, r.u, k - 1)

\* What the next k calls of readToken return.
nextTokens(b, u, k) == IF k = 0 THEN <<>>
ELSE Only({nextTokensGot(r, k) : r \in {readToken(b, u)}})

\* s without its last k elements
Chop(s, k) == SubSeq(s, 1, Len(s) - Min(k, Len(s)))

IsU32(tok) == tok.t = "int" /\ tok.hi \in 0..(W16 - 1)
IsU16(tok) == tok.t = "int" /\ tok.hi = 0

\* A readObject call has just returned.
Returned == ret.set /\ ret.fn = "readObject"

\* The call of the buffer's user has returned.
Finished == stack = <<>> /\ Returned

\* C1: with allowObjptr true, readObject on Integer (fits uint32), Integer
\* (fits uint16), Keyword R returns IndirectReference{id = first, generation =
\* second}; the three tokens are consumed and no others, and nothing is pushed
\* back: the pushback stack is what it was at the call, less the tokens of the
\* three that were taken from it.
C1_Reference ==
    (Returned /\ allowObjptr /\ Len(ret.s0) >= 3
        /\ IsU32(ret.s0[1]) /\ IsU16(ret.s0[2]) /\ IsKw(ret.s0[3], kwR))
    => /\ ret.err = ""
       /\ ret.obj.t = "objptr"
       /\ ret.obj.ptr = Ptr(ret.s0[1].hi, ret.s0[1].n, ret.s0[2].n)
       /\ pending(Buffer, unread) = Drop(ret.s0, 3)
       /\ unread = Chop(ret.u0, 3)

\* "1 0 R" read from the bytes by a call of the user: IndirectReference{1, 0}.
C1_Witness ==
    /\ Finished /\ allowObjptr /\ ret.u0 = <<>> /\ unread = <<>>
    /\ ret.s0 = <<IntTok(1), IntTok(0), KwTok(kwR)>>
    /\ ret.obj = RefObj(Ptr(0, 1, 0))

nameType    == <<84, 121, 112, 101>>
nameCatalog == <<67, 97, 116, 97, 108, 111, 103>>

FirstCallOn(input) == src = input /\ allowObjptr /\ calls = 1 /\ Finished

\* C2 as claimed: "1 0 obj /Type /Catalog endobj" read with allowObjptr true
\* gives an IndirectDefinition (1,0) whose value is the Dictionary
\* {Type: Name(Catalog)}.
C2_AsClaimed ==
    FirstCallOn(exDefPlain)
    => /\ ret.obj.t = "objdef"
       /\ ret.obj.ptr = Ptr(0, 1, 0)
       /\ ret.obj.obj.t = "dict"
       /\ DOMAIN ret.obj.obj.m = {nameType}
       /\ ret.obj.obj.m[nameType] = NameTok(nameCatalog)

\* C2, amended: it is "1 0 obj << /Type /Catalog >> endobj" that gives the
\* IndirectDefinition (1,0) of the Dictionary {Type: Name(Catalog)}; without
\* "<<" and ">>" the value of the definition is Name(Type), and Name(Catalog)
\* is pushed back.
C2_Definition ==
    /\ FirstCallOn(exDefDict)
       => /\ ret.err = ""
          /\ ret.obj.t = "objdef"
          /\ ret.obj.ptr = Ptr(0, 1, 0)
          /\ ret.obj.obj.t = "dict"
          /\ DOMAIN ret.obj.obj.m = {nameType}
          /\ ret.obj.obj.m[nameType] = NameTok(nameCatalog)
    /\ FirstCallOn(exDefPlain)
       => /\ ret.err = ""
          /\ ret.obj = DefObj(Ptr(0, 1, 0), NameTok(nameType))
          /\ unread = <<NameTok(nameCatalog)>>

C2_Witness ==
    /\ FirstCallOn(exDefDict)
    /\ ret.obj.t = "objdef"
    /\ ret.obj.obj.t = "dict"
    /\ ret.obj.obj.m[nameType] = NameTok(nameCatalog)

\* The lookahead of a readObject call on the tokens s fails: the first is an
\* Integer that fits uint32, and "Integer that fits uint16, then R or obj" does
\* not follow.
LookaheadFails(s) ==
    /\ allowObjptr
    /\ IsU32(Nth(s, 1))
    /\ ~(IsU16(Nth(s, 2)) /\ (IsKw(Nth(s, 3), kwR) \/ IsKw(Nth(s, 3), kwObj)))

\* C3: when the lookahead of readObject fails, it returns the first Integer,
\* and the next readToken calls return the tokens that followed that Integer, in
\* their order in the input: the second token, then the third, then the rest.
C3_PushbackFidelity ==
    (Returned /\ LookaheadFails(ret.s0))
    => /\ ret.err = ""
       /\ ret.obj = ret.s0[1]
       /\ nextTokens(Buffer, unread, 2) = <<Nth(ret.s0, 2), Nth(ret.s0, 3)>>
       /\ pending(Buffer, unread) = Tail(ret.s0)

\* The third-token check failed on "5 6 /A": 6 and /A are on the stack, 6 on top.
C3_Witness ==
    /\ Returned /\ LookaheadFails(ret.s0)
    /\ IsU16(Nth(ret.s0, 2)) /\ Nth(ret.s0, 3).t = "name"
    /\ ret.obj = IntTok(5)
    /\ Len(unread) = 2 /\ unread[2] = IntTok(6) /\ unread[1].t = "name"

\* C4: the offset of a Stream is the absolute offset of the first payload
\* byte, the byte after the line ending (CR LF, LF, or CR before a byte that
\* is no LF) that follows the keyword stream, wherever the reloads of the
\* buffer fall.
C4_PayloadOffset ==
    (ret.set /\ ret.obj.t = "stream")
    => /\ payloadAt > 0
       /\ ret.obj.offset = offset0 + payloadAt

\* A stream after a lone CR, each byte in a buffer of its own: the payload byte
\* was read, and unread, as the first byte of its buffer.
C4_Witness ==
    /\ ret.set /\ ret.obj.t = "stream"
    /\ chunk = 1 /\ offset0 > 0
    /\ src[payloadAt] = 13 /\ payloadAt < Len(src)
    /\ pos = 0 /\ buf = <<src[payloadAt + 1]>>

\* C5: a readObject call that is in an array or a dictionary returns, also
\* when the input ends before "]" or ">>".
C5_Terminates ==
    (\E i \in 1..Len(stack) : stack[i].fn \in {"readArray", "readDict"})
        ~> (stack = <<>>)

\* C6: a call that met a keyword other than null, << and [ where an object
\* was to start, at whatever depth, returns an error.
C6_UnexpectedKeywordFatal ==
    (Finished /\ "UnexpectedKeyword" \in flags) => ret.err # ""

\* C7: a call that met the keyword stream followed by a byte that is neither
\* CR nor LF returns an error, and no Stream, Dictionary or string.
C7_MalformedStreamFatal ==
    (Finished /\ "MalformedStreamStart" \in flags)
    => ret.err # "" /\ ret.obj.t \notin {"stream", "dict", "str"}

\* C8: what readToken yields for a delimiter that begins no token is no value of
\* the type of a string literal, and readObject does not return it as a string
\* with no error.
C8_UnexpectedDelimiter ==
    (ret.set /\ ret.err = "" /\ ret.obj.t = "str")
    => ret.obj.msg # unexpectedDelimiter(0).msg

RECURSIVE StringsOf(_)
\* The string values in the object o, at any depth.
StringsOf(o) ==
    IF o.t = "str" THEN {o}
    ELSE IF o.t = "array" THEN UNION {StringsOf(o.a[i]) : i \in 1..Len(o.a)}
    ELSE IF o.t = "dict" THEN UNION {StringsOf(o.m[k]) : k \in DOMAIN o.m}
    ELSE IF o.t = "stream" THEN UNION {StringsOf(o.hdr[k]) : k \in DOMAIN o.hdr}
    ELSE IF o.t = "objdef" THEN StringsOf(o.obj)
    ELSE {}

\* C9: a string that readObject returns, at any depth, and that was read from
\* the input (every string but the message readDict makes up for a malformed
\* stream start, which is C7's) was passed to decryptString, with the object
\* pointer in force when readObject took it, exactly if a key is set and the id
\* of that pointer is not 0; otherwise it is as read.
C9_DecryptionGating ==
    Returned =>
        \A s \in {x \in StringsOf(ret.obj) : x.msg # msgStreamStart} :
            /\ s.at # <<>>
            /\ s.dec = IF key /\ ~(s.at[1].id = 0 /\ s.at[1].idhi = 0)
                       THEN s.at ELSE <<>>

\* "1 0 obj (s) endobj" with a key and the object pointer (0,0) before the
\* call: the string is decrypted for (1,0).
C9_Witness ==
    /\ Finished /\ key /\ ret.ptr0 = Ptr(0, 0, 0)
    /\ ret.obj.t = "objdef"
    /\ ret.obj.obj.t = "str"
    /\ ret.obj.obj.dec = <<Ptr(0, 1, 0)>>

\* C10: with allowObjptr false no readObject call is in the lookahead; a call
\* whose first token is no keyword returns that token, having consumed it
\* alone and pushed nothing back; no IndirectReference or IndirectDefinition is
\* returned.
C10_NoLookahead ==
    ~allowObjptr =>
        /\ \A i \in 1..Len(stack) : stack[i].pc \notin {"tok2", "tok3", "nested"}
        /\ Returned => ret.obj.t \notin {"objptr", "objdef"}
        /\ (Returned /\ ret.s0 # <<>> /\ ret.s0[1].t # "kw")
           => /\ ret.err = ""
              /\ ret.obj.t = ret.s0[1].t
              /\ ret.obj.v = ret.s0[1].v
              /\ ret.obj.n = ret.s0[1].n
              /\ ret.obj.hi = ret.s0[1].hi
              /\ pending(Buffer, unread) = Tail(ret.s0)
              /\ unread = Chop(ret.u0, 1)

\* "1 0 R" with allowObjptr false: Integer 1, and "0 R" still to come.
C10_Witness ==
    /\ ~allowObjptr /\ Finished
    /\ ret.obj = IntTok(1)
    /\ unread = <<>>
    /\ pending(Buffer, unread) = <<IntTok(0), KwTok(kwR)>>

\* seek has just returned.
Sought == ret.set /\ ret.fn = "seek"

\* C11: right after seek(offset) readOffset is offset, b.unread and b.buf are
\* empty, the next byte readByte returns is the next byte of the source (an
\* error if the source has none), so the next readToken is lexed from the source,
\* and allowEOF, allowObjptr, allowStream, the key and the object pointer are
\* what they were.
C11_Seek ==
    Sought =>
        /\ readOffset(Buffer) = ret.to
        /\ unread = <<>>
        /\ buf = <<>>
        /\ \A r \in {readByte(Buffer)} :
              IF ret.at < Len(src) THEN ~r.err /\ r.c = src[ret.at + 1] ELSE r.err
        /\ readToken(Buffer, unread).fresh
        /\ allowEOF = ret.was.allowEOF
        /\ allowObjptr = ret.was.allowObjptr
        /\ allowStream = ret.was.allowStream
        /\ key = ret.was.key
        /\ objptr = ret.was.objptr

\* seek to the third byte of "5 6 /A (s) " after readObject returned 5 and
\* left 6 and /A pushed back.
C11_Witness ==
    /\ Sought /\ src = exPush /\ ret.at = 2
    /\ ret.was.pushed = 2
    /\ unread = <<>>
    /\ readToken(Buffer, unread).tok = IntTok(6)


\* The source has no byte left and the buffer none unread.
AtEnd == rpos = Len(src) /\ pos >= Len(buf)

\* C12: with allowEOF set, readByte at the end of the stream returns its
\* sentinel, the byte '\n', with no error.
C12_AllowEOF ==
    (allowEOF /\ AtEnd) => \A r \in {readByte(Buffer)} : r.c = 10 /\ ~r.err

-----------------------------------------------------------------------------
(* The tokenizer's strings and keyword runs, under LexSpec.                *)

\* The first readToken of the input has returned.
Lexed == calls = 1 /\ ret.set /\ ret.fn = "readToken"

\* The digits of base 16 in order of value, in lower and in upper case.
hexLower == <<48, 49, 50, 51, 52, 53, 54, 55, 56, 57, 97, 98, 99, 100, 101, 102>>
hexUpper == <<48, 49, 50, 51, 52, 53, 54, 55, 56, 57, 65, 66, 67, 68, 69, 70>>

IsHexDigit(c) == \E v \in 1..16 : c \in {hexLower[v], hexUpper[v]}
HexValue(c) == (CHOOSE v \in 1..16 : c \in {hexLower[v], hexUpper[v]}) - 1

NotSpace(c) == c \notin {0, 9, 10, 12, 13, 32}

RECURSIVE HexPairs(_)
\* The bytes that the pairs of hex digits at the head of s stand for, up to a
\* ">" where a pair would start or to a pair that is not two hex digits.
HexPairs(s) ==
    IF Len(s) < 2 \/ s[1] = 62 \/ ~IsHexDigit(s[1]) \/ ~IsHexDigit(s[2]) THEN <<>>
    ELSE <<16 * HexValue(s[1]) + HexValue(s[2])>> \o HexPairs(Drop(s, 2))

\* What a hex string stands for: its text after "<" without the whitespace,
\* pair by pair.
HexMeaning(input) == HexPairs(SelectSeq(Tail(input), NotSpace))

\* C13: readToken on a hex string returns the string of the bytes its pairs
\* of hex digits stand for, whitespace between and within pairs ignored, up
\* to the ">" or to the first pair holding a byte that is no hex digit: the
\* pairs decoded before such a pair are the result.
C13_HexString ==
    (Lexed /\ src \in HexInputs) => ret.obj = StrTok(HexMeaning(src))

\* "<41 42>" gave "AB", and "<4a\n4F >" gave "JO".
C13_Witness ==
    /\ Lexed
    /\ \/ src = exHex /\ ret.obj = StrTok(<<65, 66>>)
       \/ src = exHexCase /\ ret.obj = StrTok(<<74, 79>>)

\* A pair with a non-hex byte after a valid pair: "<41 4g>" gave "A".
C13_Truncated ==
    /\ Lexed
    /\ src = <<60, 52, 49, 32, 52, 103, 62>>
    /\ ret.obj = StrTok(<<65>>)

RECURSIVE IsEscaper(_, _)
\* Byte i of s is a backslash that escapes byte i + 1.
IsEscaper(s, i) == i >= 1 /\ s[i] = 92 /\ ~IsEscaper(s, i - 1)

\* Byte i of s is an unescaped c.
Bare(s, i, c) == s[i] = c /\ ~IsEscaper(s, i - 1)

\* The nesting depth after byte i of s, 1 being the depth inside the "(" that
\* is byte 1.
DepthAt(s, i) ==
    Cardinality({j \in 1..i : Bare(s, j, 40)}) - Cardinality({j \in 1..i : Bare(s, j, 41)})

\* The matching parenthesis: the first place where the depth is back to 0.
LitEnd(s) == CHOOSE i \in 1..Len(s) : DepthAt(s, i) = 0 /\ \A j \in 1..(i - 1) : DepthAt(s, j) > 0

RECURSIVE LitText(_, _, _)
\* The text of bytes i..(e - 1) of s: a backslash before "(", ")" or "\" is
\* dropped, every other byte of the alphabet of LitInputs stands for itself.
LitText(s, i, e) ==
    IF i >= e THEN <<>>
    ELSE IF IsEscaper(s, i) /\ s[i + 1] \in {40, 41, 92} THEN LitText(s, i + 1, e)
    ELSE <<s[i]>> \o LitText(s, i + 1, e)

\* C14: readToken on a literal string returns the text up to the matching
\* parenthesis, where the depth, raised by each unescaped "(" and lowered by
\* each unescaped ")", is back to 0, and stops reading there; the balanced
\* parentheses inside are part of the text, and an escaped parenthesis is text
\* that leaves the depth alone.
C14_LiteralString ==
    (Lexed /\ src \in LitInputs) =>
        /\ ret.obj = StrTok(LitText(src, 2, LitEnd(src)))
        /\ readOffset(Buffer) = LitEnd(src)

\* "(A(B)C)" gave "A(B)C", and "(\((\))\\)" gave "((" ")" ")" "\".
C14_Witness ==
    /\ Lexed
    /\ \/ src = exLit /\ ret.obj = StrTok(<<65, 40, 66, 41, 67>>)
       \/ src = exLitEsc /\ ret.obj = StrTok(<<40, 40, 41, 41, 92>>)

IsDigit(c) == c \in 48..57

\* The text s after its optional sign.
Unsigned(s) == IF s # <<>> /\ s[1] \in {43, 45} THEN Tail(s) ELSE s

\* An optional sign followed by one or more digits.
IntegerText(s) == Unsigned(s) # <<>> /\ \A i \in 1..Len(Unsigned(s)) : IsDigit(Unsigned(s)[i])

RECURSIVE Pow10(_)
Pow10(k) == IF k = 0 THEN 1 ELSE 10 * Pow10(k - 1)

RECURSIVE DigitsValue(_)
\* The decimal value of the digits d, by the place of each digit.
DigitsValue(d) ==
    IF d = <<>> THEN 0 ELSE (d[1] - 48) * Pow10(Len(d) - 1) + DigitsValue(Tail(d))

DecimalValue(s) ==
    IF s[1] = 45 THEN 0 - DigitsValue(Unsigned(s)) ELSE DigitsValue(Unsigned(s))

\* An optional sign followed by digits and exactly one ".", one digit at least.
RealText(s) ==
    \E i \in 1..Len(Unsigned(s)) :
        /\ Unsigned(s)[i] = 46
        /\ \A j \in 1..Len(Unsigned(s)) : j # i => IsDigit(Unsigned(s)[j])
        /\ Len(Unsigned(s)) > 1

\* An optional sign followed by one or more bytes, each a digit or ".", of
\* which exactly one is ".": "." alone, "+." and "-." are among them.
RealTextOrDot(s) ==
    \E i \in 1..Len(Unsigned(s)) :
        /\ Unsigned(s)[i] = 46
        /\ \A j \in 1..Len(Unsigned(s)) : j # i => IsDigit(Unsigned(s)[j])

\* The token of the run s, real telling whether s is the text of a Real.
ClassOf(s, real) ==
    IF s = kwTrue \/ s = kwFalse THEN BoolTok(s = kwTrue)
    ELSE IF IntegerText(s) THEN IntTok(DecimalValue(s))
    ELSE IF real THEN RealTok(s)
    ELSE KwTok(s)

\* The text of the run that the input src holds.
RunOf(input) == SubSeq(input, 1, Len(input) - 1)

\* C15 as stated: a run is a Boolean exactly when it is "true" or "false", an
\* Integer of the decimal value of its text exactly when it is an optional
\* sign and one or more digits, a Real exactly when it is an optional sign
\* followed by digits containing exactly one ".", and otherwise a Keyword of
\* the same text.
C15_AsClaimed ==
    (Lexed /\ src \in RunInputs) => ret.obj = ClassOf(RunOf(src), RealText(RunOf(src)))

\* C15: as above, the Real being a run of an optional sign followed by one
\* or more bytes that are digits or ".", exactly one of them ".": the run
\* needs no digit, so ".", "+." and "-." are Reals, not Keywords.
C15_Classification ==
    (Lexed /\ src \in RunInputs) => ret.obj = ClassOf(RunOf(src), RealTextOrDot(RunOf(src)))

\* The run "." was returned as a Real.
C15_Witness == Lexed /\ src = <<46, 32>> /\ ret.obj = RealTok(<<46>>)

\* "+" was returned as a Keyword and "-2147483647" as that Integer.
C15_Others ==
    /\ Lexed
    /\ \/ src = <<43, 32>> /\ ret.obj = KwTok(<<43>>)
       \/ /\ src = <<45, 50, 49, 52, 55, 52, 56, 51, 54, 52, 55, 32>>
          /\ ret.obj = IntTok(-2147483647)

-----------------------------------------------------------------------------
(* The object reader again, under Spec.                                    *)

\* A readObject call that went into "id gen obj" has just returned.
DefReturned == ret.set /\ ret.fn = "readObject" /\ ret.how \in {"def", "deferr"}

\* The readObject call on top is parsing the object of "id gen obj".
InDef ==
    /\ Len(stack) >= 2
    /\ Top.fn = "readObject" /\ Top.pc = "start"
    /\ stack[Len(stack) - 1].fn = "readObject" /\ stack[Len(stack) - 1].pc = "nested"

\* C16: when a readObject call that took "id gen obj" returns, with an object
\* or with the error of the nested readObject, b.objptr is what it was when
\* the call started; when the nested readObject starts it is (id, gen).
C16_ObjptrRestored ==
    /\ DefReturned => objptr = ret.ptr0
    /\ InDef => objptr = refPtr(stack[Len(stack) - 1].tok, stack[Len(stack) - 1].tok2)

\* C17: readObject returns an IndirectReference or IndirectDefinition only
\* when the first Integer is in 0..2^32-1 and the second in 0..2^16-1; a first
\* Integer outside 0..2^32-1 is returned as it is with no further token read;
\* a second Integer outside 0..2^16-1 is pushed back and the first returned.
C17_RangeGuard ==
    /\ (Returned /\ ret.obj.t \in {"objptr", "objdef"})
       => IsU32(ret.s0[1]) /\ IsU16(ret.s0[2])
    /\ (Returned /\ allowObjptr /\ Nth(ret.s0, 1).t = "int" /\ ~IsU32(ret.s0[1]))
       => /\ ret.err = "" /\ ret.obj = ret.s0[1]
          /\ ret.how = "scalar"
          /\ unread = Chop(ret.u0, 1)
          /\ pending(Buffer, unread) = Tail(ret.s0)
    /\ (Returned /\ allowObjptr /\ IsU32(Nth(ret.s0, 1))
            /\ Nth(ret.s0, 2).t = "int" /\ ~IsU16(Nth(ret.s0, 2)))
       => /\ ret.err = "" /\ ret.obj = ret.s0[1]
          /\ ret.how = "look2"
          /\ unread = Append(Chop(ret.u0, 2), ret.s0[2])
          /\ pending(Buffer, unread) = Tail(ret.s0)

\* 2^32 at the head of "4294967296 0 R" was returned as an Integer, 0 and R
\* still unread in the buffer.
C17_Witness ==
    /\ Finished /\ allowObjptr /\ src = exWide
    /\ ret.u0 = <<>> /\ unread = <<>>
    /\ ret.obj.t = "int" /\ ret.obj.hi = W16 /\ ret.obj.n = 0
    /\ pending(Buffer, unread) = <<IntTok(0), KwTok(kwR)>>

\* -1 was returned as an Integer; 70000 as second Integer was pushed back; and
\* "4294967295 65535 R" is the reference (2^32 - 1, 2^16 - 1).
C17_Edges ==
    /\ Finished /\ allowObjptr
    /\ \/ src = exNeg /\ ret.obj = IntTok(-1) /\ unread = <<>> /\ calls = 1
       \/ src = exBig /\ ret.obj = IntTok(W16) /\ unread = <<IntTok(70000)>>
       \/ src = exMax /\ ret.obj = RefObj(Ptr(W16 - 1, W16 - 1, W16 - 1))

\* The dictionary x with the value v under the key n.
Put(x, n, v) == [k \in (DOMAIN x) \cup {n} |-> IF k = n THEN v ELSE x[k]]

RECURSIVE KeyValues(_, _)
\* The tokens s after "<<" read as keys and values into x: a token in key
\* position that is no Name is passed over alone, a Name takes the token after
\* it as its value, ">>" in key position ends it; ok is FALSE when a Name has
\* no value token after it.
KeyValues(s, x) ==
    IF s = <<>> \/ IsKw(s[1], kwDictE) THEN [ok |-> TRUE, x |-> x]
    ELSE IF s[1].t # "name" THEN KeyValues(Tail(s), x)
    ELSE IF Nth(s, 2).t \notin {"name", "int", "str"} THEN [ok |-> FALSE, x |-> x]
    ELSE KeyValues(Drop(s, 2), Put(x, s[1].v, s[2]))

\* The tokens that are the values of the dictionary m, as readToken made them.
Plain(m) == [k \in DOMAIN m |-> [m[k] EXCEPT !.at = <<>>]]

\* readObject has returned from a dictionary of Names, Integers and strings.
FlatDict ==
    /\ Finished /\ ~key
    /\ src \in DictInputs \cup {exDictDup}
    /\ ret.s0 # <<>> /\ IsKw(ret.s0[1], kwDict)

\* C18: readDict passes over a token in key position that is no Name, that
\* token alone, and takes the next token as a key; the Dictionary returned
\* holds the Name/value pairs up to ">>", the later value of a key that comes
\* twice.
C18_NonNameKey ==
    FlatDict =>
        \A d \in {KeyValues(Tail(ret.s0), <<>>)} :
            d.ok => /\ ret.err = ""
                    /\ ret.obj.t = "dict"
                    /\ Plain(ret.obj.m) = d.x

\* "<< 5 /A 1 /A (s) >>": 5 passed over, and /A holds (s), its later value.
C18_Witness ==
    /\ FlatDict /\ src = exDictDup
    /\ ret.obj.t = "dict"
    /\ Plain(ret.obj.m) = Put(<<>>, <<65>>, StrTok(<<115>>))

\* "<< 5 /A /B 5 >>": both 5 passed over, each alone, and /A holds /B.
C18_Generated ==
    /\ FlatDict
    /\ ret.s0 = <<KwTok(kwDict), IntTok(5), NameTok(<<65>>), NameTok(<<66>>),
                  IntTok(5), KwTok(kwDictE)>>
    /\ ret.obj = DictObj(Put(<<>>, <<65>>, NameTok(<<66>>)))

\* C19: b.unread never holds more than 3 tokens, at whatever depth of arrays,
\* dictionaries and indirect object definitions the reader is; the user's calls
\* are readObject, readToken and seek, none of which pushes a token of its own.
C19_BoundedPushback == Len(unread) <= 3

\* Two tokens are pushed back while readObject is at work inside an array or a
\* dictionary.
C19_Witness ==
    /\ Len(unread) = 2
    /\ \E i \in 1..Len(stack) : stack[i].fn \in {"readArray", "readDict"}

\* The buffer newBuffer makes for the reader where it stands, at the offset
\* the buffer is at.
FreshBuffer == [Buffer EXCEPT !.buf = <<>>, !.pos = 0, !.eof = FALSE]

\* C20: after seek the next readToken returns what it returns on a newly
\* created buffer at that offset, also when the end of the input was reached
\* under allowEOF before the seek.
C20_SeekFresh ==
    Sought =>
        \A r \in {readToken(Buffer, unread)} :
            \A f \in {readToken(FreshBuffer, <<>>)} : r.tok = f.tok

\* After the end of "1 0 obj << /Type /Catalog >> endobj" was reached and
\* seek(1) called, readToken returns io.EOF for the space before 0.
C20_StaleSpace ==
    /\ Sought /\ eof /\ src = exDefDict /\ ret.at = 1
    /\ readToken(Buffer, unread).tok = EOFTok
    /\ readToken(FreshBuffer, <<>>).tok = IntTok(0)

\* After the end of "<<(s)>>" was reached and seek(2) called, readToken
\* returns the empty string for (s).
C20_StaleString ==
    /\ Sought /\ eof /\ src = exDictStr /\ ret.at = 2
    /\ readToken(Buffer, unread).tok = StrTok(<<>>)
    /\ readToken(FreshBuffer, <<>>).tok = StrTok(<<115>>)
====
